---- MODULE Spec2Model ----
(***************************************************************************)
(* Model of the text-to-speech playback component App (src/App.tsx) and    *)
(* of the remote speech call it awaits (services/geminiService).           *)
(*                                                                         *)
(* The component state (useState / useRef cells) and the platform objects  *)
(* it drives (AudioBufferSourceNode instances and their queued 'ended'     *)
(* events) are the variables.  Every event handler, and every resumption   *)
(* of the async function handleGenerate after an await, is one action.     *)
(***************************************************************************)
EXTENDS Integers, Sequences, FiniteSets, TLC

\* ------------------------------------------------------------------ bounds
MaxRequests == 2      \* accepted generate requests in one behaviour
MaxTextLen  == 1      \* length of the text typed in the textarea
MaxPcmLen   == 3      \* length of a decoded PCM byte sequence

\* --------------------------------------------------------------- constants
None      == 0                       \* an empty ref (null)
Nodes     == 1..MaxRequests          \* source nodes that can be created
Chars     == {" ", "a"}
Texts     == UNION {[1..k -> Chars] : k \in 0..MaxTextLen}
Undefined == "undefined"             \* resolved value of an absent payload
Payloads  == {Undefined, "", "AIA="}     \* what the remote call can resolve to
Bytes     == {0, 1, 127, 128, 255}   \* byte values of a decoded payload
PcmInputs == UNION {[1..k -> Bytes] : k \in 0..MaxPcmLen}

VARIABLES
  text,             \* useState('')          textarea content
  isGenerating,     \* useState(false)
  isPlaying,        \* useState(false)
  error,            \* useState(null)        "null" or a message
  audioContextRef,  \* useRef(null)          "null" or "ctx"
  sourceRef,        \* useRef(null)          None or a node
  pc,               \* position of handleGenerate: idle / awaitSpeech / awaitDecode
  status,           \* per node: none / created / playing / finished / stopped
  endedQueue,       \* nodes whose 'ended' event is queued, not yet dispatched
  completions,      \* per node: number of times its onended callback ran
  stopCalled,       \* nodes on which stop() was invoked
  requests,         \* accepted generate requests so far
  base64Audio,      \* const base64Audio of the running request ("unset" before)
  remoteCalls,      \* calls of generateCaribbeanSpeech by the current request
  decodeCalls,      \* calls of decode() by the current request
  decodedWith,      \* payloads decode() was ever invoked with
  lastOp,           \* the handler that ran last
  lastResult,       \* how the last handleGenerate step ended
  lastStop,         \* how the last stopPlayback call ended
  pcm,              \* decoder: the decoded bytes handed to decodeAudioData
  samples,          \* decoder: channel data of the buffer built from pcm
  dpc               \* decoder: off / ready / done

vars == <<text, isGenerating, isPlaying, error, audioContextRef, sourceRef, pc,
          status, endedQueue, completions, stopCalled, requests, base64Audio,
          remoteCalls, decodeCalls, decodedWith, lastOp, lastResult, lastStop,
          pcm, samples, dpc>>

appVars == <<text, isGenerating, isPlaying, error, audioContextRef, sourceRef, pc,
             status, endedQueue, completions, stopCalled, requests, base64Audio,
             remoteCalls, decodeCalls, decodedWith, lastOp, lastResult, lastStop>>

State ==
  [text |-> text, isGenerating |-> isGenerating, isPlaying |-> isPlaying,
   error |-> error, audioContextRef |-> audioContextRef, sourceRef |-> sourceRef,
   pc |-> pc, status |-> status, endedQueue |-> endedQueue,
   completions |-> completions, stopCalled |-> stopCalled, requests |-> requests,
   base64Audio |-> base64Audio, remoteCalls |-> remoteCalls,
   decodeCalls |-> decodeCalls, decodedWith |-> decodedWith, lastOp |-> lastOp, lastResult |-> lastResult,
   lastStop |-> lastStop]

Commit(s) ==
  /\ text' = s.text
  /\ isGenerating' = s.isGenerating
  /\ isPlaying' = s.isPlaying
  /\ error' = s.error
  /\ audioContextRef' = s.audioContextRef
  /\ sourceRef' = s.sourceRef
  /\ pc' = s.pc
  /\ status' = s.status
  /\ endedQueue' = s.endedQueue
  /\ completions' = s.completions
  /\ stopCalled' = s.stopCalled
  /\ requests' = s.requests
  /\ base64Audio' = s.base64Audio
  /\ remoteCalls' = s.remoteCalls
  /\ decodeCalls' = s.decodeCalls
  /\ decodedWith' = s.decodedWith
  /\ lastOp' = s.lastOp
  /\ lastResult' = s.lastResult
  /\ lastStop' = s.lastStop
  /\ UNCHANGED <<pcm, samples, dpc>>

\* ----------------------------------------------------------- pure helpers
RECURSIVE TrimStart(_)
TrimStart(t) ==
  IF t = <<>> THEN <<>>
  ELSE IF Head(t) = " " THEN TrimStart(Tail(t)) ELSE t

RECURSIVE TrimEnd(_)
TrimEnd(t) ==
  IF t = <<>> THEN <<>>
  ELSE IF t[Len(t)] = " " THEN TrimEnd(SubSeq(t, 1, Len(t) - 1)) ELSE t

\* String.prototype.trim
Trim(t) == TrimEnd(TrimStart(t))

\* !text.trim()
Blank(t) == Trim(t) = <<>>

\* ------------------------------------------------------------- decoder
\* one signed 16-bit little-endian sample, as 32768 times its float value
Int16LE(lo, hi) ==
  LET u == lo + 256 * hi IN IF u >= 32768 THEN u - 65536 ELSE u

\* variant: the pair is read big-endian
Int16LE_BigEndian(lo, hi) ==
  LET u == hi + 256 * lo IN IF u >= 32768 THEN u - 65536 ELSE u

\* variant: an incomplete trailing pair is padded with a zero byte
RECURSIVE ToAudioBuffer_PadsOdd(_)
ToAudioBuffer_PadsOdd(bytes) ==
  IF Len(bytes) = 0 THEN <<>>
  ELSE IF Len(bytes) = 1 THEN <<Int16LE(bytes[1], 0)>>
  ELSE <<Int16LE(bytes[1], bytes[2])>>
         \o ToAudioBuffer_PadsOdd(SubSeq(bytes, 3, Len(bytes)))

\* decodeAudioData(bytes, ctx, 24000, 1): consecutive byte pairs become the
\* samples of the single channel, an incomplete trailing pair is discarded
RECURSIVE ToAudioBuffer(_)
ToAudioBuffer(bytes) ==
  IF Len(bytes) < 2 THEN <<>>
  ELSE <<Int16LE(bytes[1], bytes[2])>>
         \o ToAudioBuffer(SubSeq(bytes, 3, Len(bytes)))

\* variant: the absence test only recognises the empty string
Falsy_OnlyEmpty(p) == p = ""

\* !base64Audio : undefined and the empty string are falsy
Falsy(p) == p = Undefined \/ p = ""

\* ------------------------------------------------------- platform: nodes
\* AudioBufferSourceNode.stop() raises when start() was never called; on a
\* node that already finished the outcome depends on the implementation.
NodeStopRaises(s, n, raises) ==
  \/ s.status[n] = "created"
  \/ s.status[n] \in {"finished", "stopped"} /\ raises

\* AudioBufferSourceNode.stop(): a playing node falls silent and its 'ended'
\* event is queued; otherwise nothing changes.
NodeStop(s, n) ==
  [s EXCEPT !.stopCalled = @ \cup {n},
            !.status = IF s.status[n] = "playing"
                       THEN [@ EXCEPT ![n] = "stopped"] ELSE @,
            !.endedQueue = IF s.status[n] = "playing" THEN @ \cup {n} ELSE @]

\* ---------------------------------------------------------- stopPlayback
\* variant: the slot is emptied without stop() being called on the node
StopPlayback_NoStop(s, raises) ==
  [s EXCEPT !.sourceRef = None, !.isPlaying = FALSE,
            !.lastStop = IF s.sourceRef # None THEN "stale" ELSE "noop"]

\* variant: no "if (sourceRef.current)" guard, so stop() is called on null
\* outside the try block and the TypeError escapes
StopPlayback_NoGuard(s, raises) ==
  IF s.sourceRef = None
  THEN [s EXCEPT !.lastStop = "raised"]
  ELSE [NodeStop(s, s.sourceRef) EXCEPT
          !.sourceRef = None, !.isPlaying = FALSE,
          !.lastStop = IF NodeStopRaises(s, s.sourceRef, raises)
                       THEN "caught" ELSE "halted"]

\* variant: no try/catch around stop(), so its exception escapes
StopPlayback_NoCatch(s, raises) ==
  IF s.sourceRef = None
  THEN [s EXCEPT !.isPlaying = FALSE, !.lastStop = "noop"]
  ELSE IF NodeStopRaises(s, s.sourceRef, raises)
       THEN [NodeStop(s, s.sourceRef) EXCEPT !.lastStop = "raised"]
       ELSE [NodeStop(s, s.sourceRef) EXCEPT
               !.sourceRef = None, !.isPlaying = FALSE,
               !.lastStop = IF s.status[s.sourceRef] = "playing"
                            THEN "halted" ELSE "stale"]

\* variant: setIsPlaying(false) is only reached when the slot was empty
StopPlayback_KeepsPlaying(s, raises) ==
  IF s.sourceRef # None
  THEN [NodeStop(s, s.sourceRef) EXCEPT
          !.sourceRef = None,
          !.lastStop = IF NodeStopRaises(s, s.sourceRef, raises)
                       THEN "caught"
                       ELSE IF s.status[s.sourceRef] = "playing"
                            THEN "halted" ELSE "stale"]
  ELSE [s EXCEPT !.isPlaying = FALSE, !.lastStop = "noop"]

StopPlayback(s, raises) ==
  LET s1 == IF s.sourceRef # None
            THEN [NodeStop(s, s.sourceRef) EXCEPT
                    !.sourceRef = None,
                    !.lastStop = IF NodeStopRaises(s, s.sourceRef, raises)
                                 THEN "caught"
                                 ELSE IF s.status[s.sourceRef] = "playing"
                                      THEN "halted" ELSE "stale"]
            ELSE [s EXCEPT !.lastStop = "noop"]
  IN  [s1 EXCEPT !.isPlaying = FALSE]

\* -------------------------------------------------------- handleGenerate
\* variant: a failed request re-issues the remote call once
CatchFinally_Retries(s, msg) ==
  IF s.remoteCalls < 2
  THEN [s EXCEPT !.error = msg, !.pc = "awaitSpeech", !.remoteCalls = @ + 1,
                 !.lastResult = msg]
  ELSE [s EXCEPT !.error = msg, !.isGenerating = FALSE, !.pc = "idle",
                 !.lastResult = msg]

\* variant: the catch block does not record the error
CatchFinally_NoError(s, msg) ==
  [s EXCEPT !.isGenerating = FALSE, !.pc = "idle", !.lastResult = msg]

\* variant: no finally block, isGenerating is left set on failure
CatchFinally_NoFinally(s, msg) ==
  [s EXCEPT !.error = msg, !.pc = "idle", !.lastResult = msg]

\* catch (err) { setError(...) } finally { setIsGenerating(false) }
CatchFinally(s, msg) ==
  [s EXCEPT !.error = msg, !.isGenerating = FALSE, !.pc = "idle",
            !.lastResult = msg]

\* variant: the request does not call stopPlayback() before the remote call
HandleGenerateStart_NoStop(s, raises) ==
  IF Blank(s.text)
  THEN [s EXCEPT !.error = "blank", !.lastOp = "handleGenerate",
                 !.lastResult = "blank"]
  ELSE [s EXCEPT !.error = "null", !.isGenerating = TRUE,
                 !.lastOp = "handleGenerate", !.pc = "awaitSpeech",
                 !.requests = @ + 1, !.base64Audio = "unset",
                 !.remoteCalls = 1, !.decodeCalls = 0,
                 !.lastResult = "pending"]

\* variant: the blank-text test comes after stopPlayback()
HandleGenerateStart_BlankStops(s, raises) ==
  LET s1 == StopPlayback([s EXCEPT !.lastOp = "handleGenerate"], raises) IN
  IF Blank(s.text)
  THEN [s1 EXCEPT !.error = "blank", !.lastResult = "blank"]
  ELSE [s1 EXCEPT !.error = "null", !.isGenerating = TRUE,
                  !.pc = "awaitSpeech", !.requests = @ + 1,
                  !.base64Audio = "unset", !.remoteCalls = 1,
                  !.decodeCalls = 0, !.lastResult = "pending"]

\* lines 38-45 and the call on line 48, up to the first await
HandleGenerateStart(s, raises) ==
  IF Blank(s.text)
  THEN [s EXCEPT !.error = "blank", !.lastOp = "handleGenerate",
                 !.lastResult = "blank"]
  ELSE LET s1 == StopPlayback([s EXCEPT !.error = "null",
                                        !.isGenerating = TRUE,
                                        !.lastOp = "handleGenerate"], raises)
       IN  IF s1.lastStop = "raised"
           THEN [s1 EXCEPT !.lastResult = "uncaught"]
           ELSE [s1 EXCEPT !.pc = "awaitSpeech", !.requests = @ + 1,
                           !.base64Audio = "unset", !.remoteCalls = 1,
                           !.decodeCalls = 0, !.lastResult = "pending"]

\* lines 48-70: the remote call settles; up to the await of decodeAudioData
SpeechSettled(s, rejected, payload, ctxRaises, decodeRaises) ==
  IF rejected THEN CatchFinally([s EXCEPT !.lastOp = "speechSettled"], "remoteError")
  ELSE
  LET s0 == [s EXCEPT !.lastOp = "speechSettled", !.base64Audio = payload] IN
  IF Falsy(payload) THEN CatchFinally(s0, "noAudioData")
  ELSE IF s.audioContextRef = "null" /\ ctxRaises
       THEN CatchFinally(s0, "contextError")
  ELSE LET s1 == [s0 EXCEPT !.audioContextRef = "ctx",
                            !.decodeCalls = @ + 1,
                            !.decodedWith = @ \cup {payload}]
       IN  IF decodeRaises THEN CatchFinally(s1, "decodeError")
           ELSE [s1 EXCEPT !.pc = "awaitDecode", !.lastResult = "pending"]

\* variant: setIsGenerating(false) is only run on the failure paths
DecodeSettled_KeepsGenerating(s, n, rejected, createRaises, startRaises) ==
  LET s0 == [s EXCEPT !.lastOp = "decodeSettled"] IN
  IF rejected THEN CatchFinally(s0, "bufferError")
  ELSE IF createRaises THEN CatchFinally(s0, "sourceError")
  ELSE LET s1 == [s0 EXCEPT !.status[n] = "created", !.sourceRef = n] IN
       IF startRaises THEN CatchFinally(s1, "startError")
       ELSE [s1 EXCEPT !.status[n] = "playing", !.isPlaying = TRUE,
                       !.pc = "idle", !.lastResult = "started"]

\* variant: setIsPlaying(true) runs before source.start()
DecodeSettled_PlayingFirst(s, n, rejected, createRaises, startRaises) ==
  LET s0 == [s EXCEPT !.lastOp = "decodeSettled"] IN
  IF rejected THEN CatchFinally(s0, "bufferError")
  ELSE IF createRaises THEN CatchFinally(s0, "sourceError")
  ELSE LET s1 == [s0 EXCEPT !.status[n] = "created", !.sourceRef = n,
                            !.isPlaying = TRUE] IN
       IF startRaises THEN CatchFinally(s1, "startError")
       ELSE [s1 EXCEPT !.status[n] = "playing",
                       !.isGenerating = FALSE, !.pc = "idle",
                       !.lastResult = "started"]

\* lines 65-88: decodeAudioData settles; the node is built and started
DecodeSettled(s, n, rejected, createRaises, startRaises) ==
  LET s0 == [s EXCEPT !.lastOp = "decodeSettled"] IN
  IF rejected THEN CatchFinally(s0, "bufferError")
  ELSE IF createRaises THEN CatchFinally(s0, "sourceError")
  ELSE LET s1 == [s0 EXCEPT !.status[n] = "created", !.sourceRef = n] IN
       IF startRaises THEN CatchFinally(s1, "startError")
       ELSE [s1 EXCEPT !.status[n] = "playing", !.isPlaying = TRUE,
                       !.isGenerating = FALSE, !.pc = "idle",
                       !.lastResult = "started"]

\* variant: the callback does not update the state
OnEndedHandler_NoIdle(s, n) ==
  [s EXCEPT !.completions[n] = @ + 1, !.lastOp = "onended"]

\* variant: the callback also empties the slot
OnEndedHandler_ClearsSlot(s, n) ==
  [s EXCEPT !.isPlaying = FALSE, !.sourceRef = None,
            !.completions[n] = @ + 1, !.lastOp = "onended"]

\* source.onended = () => { setIsPlaying(false) }
OnEndedHandler(s, n) ==
  [s EXCEPT !.isPlaying = FALSE,
            !.completions[n] = @ + 1,
            !.lastOp = "onended"]

\* ---------------------------------------------------------------- actions
AppInit ==
  /\ text = <<>>
  /\ isGenerating = FALSE
  /\ isPlaying = FALSE
  /\ error = "null"
  /\ audioContextRef = "null"
  /\ sourceRef = None
  /\ pc = "idle"
  /\ status = [n \in Nodes |-> "none"]
  /\ endedQueue = {}
  /\ completions = [n \in Nodes |-> 0]
  /\ stopCalled = {}
  /\ requests = 0
  /\ base64Audio = "unset"
  /\ remoteCalls = 0
  /\ decodeCalls = 0
  /\ decodedWith = {}
  /\ lastOp = "init"
  /\ lastResult = "none"
  /\ lastStop = "none"

Init ==
  /\ AppInit
  /\ pcm = <<>>
  /\ samples = <<>>
  /\ dpc = "off"

\* textarea onChange
SetText ==
  \E t \in Texts :
    /\ t # text
    /\ Commit([State EXCEPT !.text = t, !.lastOp = "setText"])

\* Generate button: disabled={isGenerating || !text.trim()}
HandleGenerate ==
  /\ ~isGenerating
  /\ ~Blank(text)
  /\ requests < MaxRequests
  /\ \E raises \in BOOLEAN : Commit(HandleGenerateStart(State, raises))

\* Stop button: rendered only when isPlaying
StopClick ==
  /\ isPlaying
  /\ \E raises \in BOOLEAN :
       Commit(StopPlayback([State EXCEPT !.lastOp = "stopClick"], raises))

SpeechResponse ==
  /\ pc = "awaitSpeech"
  /\ \E rejected \in BOOLEAN, payload \in Payloads,
        ctxRaises \in BOOLEAN, decodeRaises \in BOOLEAN :
       Commit(SpeechSettled(State, rejected, payload, ctxRaises, decodeRaises))

\* the node the next createBufferSource() returns
NextNode ==
  CHOOSE n \in Nodes : status[n] = "none" /\ \A m \in Nodes : status[m] = "none" => n <= m

DecodeResponse ==
  /\ pc = "awaitDecode"
  /\ \E rejected \in BOOLEAN, createRaises \in BOOLEAN, startRaises \in BOOLEAN :
       Commit(DecodeSettled(State, NextNode, rejected, createRaises, startRaises))

\* the audio thread reaches the end of the buffer of a playing node
BufferEnd ==
  \E n \in Nodes :
    /\ status[n] = "playing"
    /\ Commit([State EXCEPT !.status[n] = "finished",
                            !.endedQueue = @ \cup {n},
                            !.lastOp = "bufferEnd"])

\* the event loop dispatches a queued 'ended' event to the node's onended
OnEnded(n) ==
  /\ n \in endedQueue
  /\ Commit(OnEndedHandler([State EXCEPT !.endedQueue = @ \ {n}], n))

Next ==
  \/ SetText
  \/ HandleGenerate
  \/ StopClick
  \/ SpeechResponse
  \/ DecodeResponse
  \/ BufferEnd
  \/ \E n \in Nodes : OnEnded(n)

Spec == Init /\ [][Next]_vars

\* the decoder on its own: any bounded byte sequence is turned into a buffer
DecoderInit ==
  /\ AppInit
  /\ pcm \in PcmInputs
  /\ samples = <<>>
  /\ dpc = "ready"

DecodeAudioData ==
  /\ dpc = "ready"
  /\ samples' = ToAudioBuffer(pcm)
  /\ dpc' = "done"
  /\ UNCHANGED <<pcm, appVars>>

DecoderNext == DecodeAudioData

DecoderSpec == DecoderInit /\ [][DecoderNext]_vars

\* handleGenerate called with blank text: the Generate button is disabled
\* then, so only a direct call reaches the test on line 38
HandleGenerateBlank ==
  /\ Blank(text)
  /\ \E raises \in BOOLEAN : Commit(HandleGenerateStart(State, raises))

DirectNext == Next \/ HandleGenerateBlank

DirectSpec == Init /\ [][DirectNext]_vars

\* the remote call and decodeAudioData eventually settle, and the event loop
\* eventually dispatches every queued event
LiveSpec ==
  /\ Spec
  /\ WF_vars(SpeechResponse)
  /\ WF_vars(DecodeResponse)
  /\ \A n \in Nodes : WF_vars(OnEnded(n))

\* the event loop eventually dispatches every queued event
FairSpec == Spec /\ \A n \in Nodes : WF_vars(OnEnded(n))

\* ------------------------------------------------------------ properties
Audible == {n \in Nodes : status[n] = "playing"}

StopOps == {"handleGenerate", "stopClick"}

\* the program's own cells and the platform objects, without the bookkeeping
Program(s) ==
  <<s.text, s.isGenerating, s.isPlaying, s.error, s.audioContextRef,
    s.sourceRef, s.pc, s.status, s.endedQueue, s.completions>>

\* C1: at most one source node is audible (started, neither stopped nor
\* ended) in every reachable state.
C1_AtMostOneAudible == Cardinality(Audible) <= 1

\* a later node plays after an earlier one was halted by stopPlayback
C1_Witness ==
  \E a \in Nodes, b \in Nodes :
    a # b /\ status[a] = "stopped" /\ status[b] = "playing"

\* C2 (as stated): a generate request accepted while the state is Playing
\* leaves the state Playing.
C2_StaysPlaying ==
  [][(isPlaying /\ lastOp' = "handleGenerate") => isPlaying']_vars

\* C2 (amended): a generate request accepted while Playing halts the previous
\* node and empties the slot at once and the state becomes Idle; the state
\* only turns Playing again in the step that starts the new node.
C2_StopThenIdleThenPlaying ==
  [][ /\ (isPlaying /\ lastOp' = "handleGenerate") =>
           /\ ~isPlaying'
           /\ isGenerating'
           /\ sourceRef' = None
           /\ Audible' = {}
      /\ (~isPlaying /\ isPlaying') =>
           /\ lastOp' = "decodeSettled"
           /\ sourceRef' # None
           /\ sourceRef' # sourceRef
           /\ Audible' = {sourceRef'} ]_vars

\* a request has just halted a playing node while the state was Playing
C2_Witness ==
  /\ lastOp = "handleGenerate"
  /\ lastStop = "halted"
  /\ \A n \in Nodes : completions[n] = 0
  /\ ~isPlaying
  /\ isGenerating

\* C3: a node that reaches the end of its buffer has its onended callback
\* run exactly once (never twice, and eventually once), and the step that
\* runs a callback leaves the state Idle.
C3_NaturalCompletion ==
  /\ [][\A n \in Nodes :
          completions'[n] # completions[n] =>
            (completions'[n] = completions[n] + 1 /\ ~isPlaying')]_vars
  /\ \A n \in Nodes : [](completions[n] <= 1)
  /\ \A n \in Nodes : (status[n] = "finished") ~> (completions[n] = 1)

\* a node played to its end, stop() was never called on it, its callback ran
C3_Witness ==
  \E n \in Nodes :
    /\ status[n] = "finished"
    /\ n \notin stopCalled
    /\ completions[n] = 1
    /\ ~isPlaying

\* C4: the callback of a node halted by stopPlayback never runs.
C4_NoCallbackAfterStop ==
  \A n \in Nodes : status[n] = "stopped" => completions[n] = 0

\* C5 (as stated): once the completion callback has run the slot is empty.
C5_SlotClearedOnCompletion == lastOp = "onended" => sourceRef = None

\* C5 (amended): the completion callback sets the state to Idle and leaves
\* the slot as it is; the slot is only ever emptied by stopPlayback.
C5_SlotKeptOnCompletion ==
  [][ /\ lastOp' = "onended" => (sourceRef' = sourceRef /\ ~isPlaying')
      /\ (sourceRef # None /\ sourceRef' = None) =>
           (lastOp' \in StopOps /\ lastStop' \in {"halted", "stale", "caught"})
    ]_vars

\* the callback of the node in the slot ran and the node is still in the slot
C5_Witness ==
  /\ lastOp = "onended"
  /\ sourceRef # None
  /\ status[sourceRef] = "finished"
  /\ completions[sourceRef] = 1
  /\ ~isPlaying

\* C6: with an empty slot stopPlayback changes nothing and does not raise
\* (the state is Idle before and after), and a second stopPlayback after any
\* stopPlayback changes nothing either.
C6_StopIdleNoop ==
  \A r1 \in BOOLEAN, r2 \in BOOLEAN :
    LET s1 == StopPlayback(State, r1)
        s2 == StopPlayback(s1, r2)
    IN  /\ sourceRef = None =>
             /\ ~isPlaying
             /\ s1.lastStop = "noop"
             /\ Program(s1) = Program(State)
        /\ s1.lastStop # "raised"
        /\ s2.lastStop = "noop"
        /\ Program(s2) = Program(s1)

\* a request called stopPlayback on an empty slot after an earlier stop
C6_Witness ==
  /\ lastOp = "handleGenerate"
  /\ lastStop = "noop"
  /\ stopCalled # {}
  /\ sourceRef = None
  /\ ~isPlaying

\* C7: stopPlayback on a slot whose node already finished or was never
\* started does not raise, empties the slot and leaves the state Idle.
C7_StopToleratesDeadNode ==
  [][(/\ lastOp' \in StopOps
      /\ lastResult' # "blank"
      /\ sourceRef # None
      /\ status[sourceRef] \in {"finished", "created"}) =>
        /\ lastStop' \in {"caught", "stale"}
        /\ status[sourceRef] = "created" => lastStop' = "caught"
        /\ sourceRef' = None
        /\ ~isPlaying'
        /\ status' = status ]_vars

\* the node's stop() raised inside stopPlayback and was swallowed
C7_Witness ==
  /\ lastStop = "caught"
  /\ lastOp \in StopOps
  /\ sourceRef = None
  /\ ~isPlaying

\* C8 (as stated): when the AudioContext cannot be constructed, or the
\* source cannot be created or started, an error is set, the slot is empty
\* and the state is Idle.
C8_FailedStartLeavesSlotEmpty ==
  (lastOp \in {"speechSettled", "decodeSettled"}
     /\ lastResult \in {"contextError", "sourceError", "startError"}) =>
    (error # "null" /\ sourceRef = None /\ ~isPlaying)

\* C8 (amended): in all three cases an error is set, the state is Idle and
\* nothing is audible; the slot is empty when the AudioContext constructor or
\* createBufferSource raised, and holds the never-started node when
\* source.start() raised.
C8_FailedStartIsIdle ==
  (lastOp \in {"speechSettled", "decodeSettled"}
     /\ lastResult \in {"contextError", "sourceError", "startError"}) =>
    /\ error = lastResult
    /\ ~isPlaying
    /\ ~isGenerating
    /\ Audible = {}
    /\ lastResult \in {"contextError", "sourceError"} => sourceRef = None
    /\ lastResult = "contextError" => audioContextRef = "null"
    /\ lastResult = "startError" =>
         (sourceRef # None /\ status[sourceRef] = "created")

\* source.start() has just raised
C8_Witness ==
  /\ lastOp = "decodeSettled"
  /\ lastResult = "startError"
  /\ error = "startError"
  /\ sourceRef # None

\* C9: when decode() raises no node is created, the slot is empty, the state
\* is Idle, nothing is audible, the error is set, the request is over and
\* decode() ran once.
C9_DecodeFailure ==
  (lastOp = "speechSettled" /\ lastResult = "decodeError") =>
    /\ error = "decodeError"
    /\ sourceRef = None
    /\ ~isPlaying
    /\ Audible = {}
    /\ ~isGenerating
    /\ pc = "idle"
    /\ decodeCalls = 1
    /\ Cardinality({n \in Nodes : status[n] # "none"}) < requests

\* decode() has just raised on a payload
C9_Witness ==
  /\ lastOp = "speechSettled"
  /\ lastResult = "decodeError"
  /\ base64Audio \notin {"unset", Undefined, ""}

\* C10: decode() is never invoked with an absent payload; when the remote
\* call resolves to an absent payload the request ends with an error, without
\* a decode() call and without a playback.
C10_AbsentPayloadNotDecoded ==
  /\ Undefined \notin decodedWith
  /\ (lastOp = "speechSettled" /\ base64Audio = Undefined) =>
       /\ lastResult = "noAudioData"
       /\ error = "noAudioData"
       /\ decodeCalls = 0
       /\ sourceRef = None
       /\ ~isPlaying
       /\ Audible = {}
       /\ pc = "idle"

\* the remote call has just resolved to an absent payload
C10_Witness ==
  /\ lastOp = "speechSettled"
  /\ base64Audio = Undefined
  /\ error = "noAudioData"
  /\ decodeCalls = 0

Failures ==
  {"remoteError", "noAudioData", "contextError", "decodeError", "bufferError",
   "sourceError", "startError"}

\* C12: an accepted request calls generateCaribbeanSpeech exactly once and
\* decode() at most once; the remote call is only issued by the step that
\* accepts a request, and the step that ends a request (with a playback or a
\* failure) issues no further call.
C12_NoRetry ==
  /\ [](/\ remoteCalls <= 1
        /\ decodeCalls <= 1
        /\ requests > 0 => remoteCalls = 1)
  /\ [][ /\ (remoteCalls' # remoteCalls \/ requests' # requests) =>
              /\ lastOp' = "handleGenerate"
              /\ pc = "idle"
              /\ requests' = requests + 1
              /\ remoteCalls' = 1
         /\ decodeCalls' > decodeCalls =>
              (lastOp' = "speechSettled" /\ decodeCalls = 0)
         /\ (pc # "idle" /\ lastResult' \in Failures \cup {"started"}) =>
              (pc' = "idle" /\ UNCHANGED <<requests, remoteCalls>>) ]_vars

\* a second request has failed after one remote call and one decode() call
C12_Witness ==
  /\ requests = 2
  /\ lastResult \in {"decodeError", "bufferError", "sourceError", "startError"}
  /\ pc = "idle"
  /\ remoteCalls = 1
  /\ decodeCalls = 1

\* C13: an audible node is always the node in the slot and the state is
\* Playing while it is audible.
C13_AudibleIsPlayingInSlot ==
  \A n \in Nodes : status[n] = "playing" => (isPlaying /\ sourceRef = n)

\* C14: while the state is Playing the slot holds a node on which start()
\* was called; the state turns Playing only in the step that stores and
\* starts a node, and a step that empties the slot leaves the state Idle.
C14_PlayingHasStartedNode ==
  /\ [](isPlaying =>
          (sourceRef # None /\ status[sourceRef] \in {"playing", "finished"}))
  /\ [][ /\ (~isPlaying /\ isPlaying') =>
              /\ lastOp' = "decodeSettled"
              /\ sourceRef' # None
              /\ status[sourceRef'] = "none"
              /\ status'[sourceRef'] = "playing"
         /\ (sourceRef # None /\ sourceRef' = None) => ~isPlaying' ]_vars

\* the node in the slot reached its buffer end while the state is Playing
C14_Witness ==
  /\ isPlaying
  /\ sourceRef # None
  /\ status[sourceRef] = "finished"
  /\ sourceRef \in endedQueue

\* C15: isGenerating and isPlaying are never both true; handleGenerate is
\* running exactly while isGenerating is set, a request is only accepted
\* when none is running, and no stop request happens while one is running.
C15_GeneratingExcludesPlaying ==
  /\ [](/\ ~(isGenerating /\ isPlaying)
        /\ isGenerating <=> pc # "idle")
  /\ [][ /\ lastOp' = "handleGenerate" => (~isGenerating /\ pc = "idle")
         /\ lastOp' = "stopClick" => (~isGenerating /\ ~isGenerating')
         /\ (isPlaying' /\ ~isPlaying) => (isGenerating /\ ~isGenerating') ]_vars

\* a request is pending after it halted a playing node
C15_Witness ==
  /\ isGenerating
  /\ ~isPlaying
  /\ pc = "awaitDecode"
  /\ \E n \in Nodes : status[n] = "stopped"

\* C16: once the remote call and the decode settle, isGenerating becomes
\* false again, and the step that ends the generating phase leaves either
\* the state Playing with no error or the state Idle with an error set.
C16_GeneratingEnds ==
  /\ isGenerating ~> ~isGenerating
  /\ [][(isGenerating /\ ~isGenerating') =>
          \/ (isPlaying' /\ error' = "null" /\ lastResult' = "started")
          \/ (~isPlaying' /\ error' # "null" /\ lastResult' \in Failures)]_vars

\* a request ended with a playback, an earlier one with a failure
C16_Witness ==
  /\ requests = 2
  /\ ~isGenerating
  /\ isPlaying
  /\ error = "null"
  /\ lastResult = "started"
  /\ \A n \in Nodes : n # sourceRef => status[n] \in {"none", "created"}

\* C17: handleGenerate with blank text sets the error and changes nothing
\* else: slot, isPlaying, isGenerating, audio context, nodes and the count
\* of remote calls stay as they are.
C17_BlankRejected ==
  [][(lastOp' = "handleGenerate" /\ Blank(text)) =>
       /\ error' = "blank"
       /\ lastResult' = "blank"
       /\ UNCHANGED <<text, isGenerating, isPlaying, audioContextRef,
                      sourceRef, pc, status, endedQueue, completions,
                      stopCalled, requests, remoteCalls, decodeCalls>>]_vars

\* blank text was rejected while a node is playing
C17_Witness ==
  /\ lastOp = "handleGenerate"
  /\ lastResult = "blank"
  /\ error = "blank"
  /\ isPlaying
  /\ sourceRef # None
  /\ status[sourceRef] = "playing"
====
